---- MODULE Spec2Model ----
(***************************************************************************)
(* Model of src/data.py: the watchlist table (Symbol Store), the four      *)
(* watchlist endpoints, the time-bucket labelling of bars and the          *)
(* aggregation of per-symbol provider results into the watchlist view.     *)
(*                                                                         *)
(* A ticker symbol is a sequence of one-character strings, so that         *)
(* str.upper() is something the model computes.  Prices are integers in    *)
(* thousandths of a currency unit (mills), so that round(x, 2) is          *)
(* something the model computes.                                           *)
(***************************************************************************)
EXTENDS Integers, Sequences, FiniteSets, TLC

VARIABLES
    rows,        \* table watchlist, in rowid order: [id, symbol, added_date]
    seq,         \* AUTOINCREMENT high-water mark of watchlist.id
    clock,       \* CURRENT_TIMESTAMP, whole seconds
    resp,        \* the last HTTP response produced
    nSeeded,     \* history: rows inserted by init_db
    nAdded,      \* history: POST requests answered 201
    nRemoved,    \* history: DELETE requests answered 200
    pc,          \* get_watchlist_with_data: "idle", "fetch" (in the loop), "done"
    interval,    \* request.args 'interval'
    symbols,     \* the symbols the handler read from the table
    idx,         \* position of the fetch loop in symbols
    results,     \* results: symbol -> stock data or {'error': ...}
    outcomes,    \* history: what the provider gave for symbols[1..idx-1]
    index,       \* labelling: timestamp of the bar at hand
    label,       \* labelling: abbreviated_date of that bar, "" before
    conns,       \* concurrent requests: each handler's connection and position
    lock,        \* the request whose connection holds the write lock, 0 if none
    commits      \* history: the committed table after each commit, oldest first

storeVars == <<rows, seq, clock, nSeeded, nAdded, nRemoved>>
aggVars == <<pc, symbols, idx, results, outcomes>>
fmtVars == <<index, label>>
concVars == <<conns, lock, commits>>
vars == <<rows, seq, clock, resp, nSeeded, nAdded, nRemoved,
          pc, interval, symbols, idx, results, outcomes, index, label,
          conns, lock, commits>>

----------------------------------------------------------------------------
(* Bounds: rows ever inserted (seq), POST requests that insert, the second *)
(* the clock can reach, the symbols watched when the data view is built,   *)
(* the bars of one series, and the requests served concurrently.           *)

MaxId == 12
MaxAdds == 2
MaxClock == 1
MaxWatch == 2
MaxBars == 2
MaxReqs == 3

----------------------------------------------------------------------------
(* str.upper() on ticker symbols *)

LowerLetters == <<"a","b","c","d","e","f","g","h","i","j","k","l","m",
                  "n","o","p","q","r","s","t","u","v","w","x","y","z">>
UpperLetters == <<"A","B","C","D","E","F","G","H","I","J","K","L","M",
                  "N","O","P","Q","R","S","T","U","V","W","X","Y","Z">>

\* The uppercase of each lowercase letter.
UpperOf == [c \in {LowerLetters[i] : i \in 1..26} |->
               UpperLetters[CHOOSE i \in 1..26 : LowerLetters[i] = c]]

\* A character without an uppercase form (here: not a-z) maps to itself.
UpperChar(c) == IF c \in DOMAIN UpperOf THEN UpperOf[c] ELSE c

upper_identity(s) == s

upper(s) == [i \in 1..Len(s) |-> UpperChar(s[i])]

----------------------------------------------------------------------------
(* init_db *)

default_stocks == << <<"A","A","P","L">>, <<"G","O","O","G","L">>,
                     <<"M","S","F","T">>, <<"T","S","L","A">>,
                     <<"N","V","D","A">> >>

\* The symbols a POST or DELETE request can carry in its path.
ReqSymbols == { <<"A","A","P","L">>, <<"a","a","p","L">>,
                <<"B","F",".","B">>, <<"b","f",".","b">> }

\* The rows executemany inserts into an empty table at second t.
SeedRows(base, t) ==
    [i \in 1..Len(default_stocks) |->
        [id |-> base + i, symbol |-> default_stocks[i], added_date |-> t]]

StoredSymbols == {rows[i].symbol : i \in 1..Len(rows)}

\* CURRENT_TIMESTAMP has one-second resolution; time passes between requests.
Tick ==
    /\ clock < MaxClock
    /\ clock' = clock + 1
    /\ UNCHANGED <<rows, seq, resp, nSeeded, nAdded, nRemoved>>
    /\ UNCHANGED <<interval, aggVars, fmtVars, concVars>>

\* Process start: CREATE TABLE IF NOT EXISTS, then seed the table when
\* SELECT COUNT(*) is 0, then commit.
init_db ==
    /\ UNCHANGED <<interval, aggVars, fmtVars, concVars>>
    /\ IF Len(rows) = 0
       THEN /\ seq + Len(default_stocks) <= MaxId
            /\ rows' = SeedRows(seq, clock)
            /\ seq' = seq + Len(default_stocks)
            /\ nSeeded' = nSeeded + Len(default_stocks)
            /\ resp' = [op |-> "init_db"]
            /\ UNCHANGED <<clock, nAdded, nRemoved>>
       ELSE /\ resp' = [op |-> "init_db"]
            /\ UNCHANGED <<rows, seq, clock, nSeeded, nAdded, nRemoved>>

----------------------------------------------------------------------------
(* SELECT ... FROM watchlist ORDER BY added_date *)

\* The table scan that feeds the sort: rows in rowid order, or backwards.
Reverse(s) == [i \in 1..Len(s) |-> s[Len(s) + 1 - i]]

\* Place of scan[i] in the sorted output: after every row with a smaller
\* added_date and after the rows with an equal one that the scan met earlier.
SortRank(scan, i) ==
    1 + Cardinality({j \in 1..Len(scan) :
                        \/ scan[j].added_date < scan[i].added_date
                        \/ scan[j].added_date = scan[i].added_date /\ j < i})

\* ORDER BY added_date names no second key, and SQL leaves the order of rows
\* with equal keys to the engine: in SQLite it follows the direction of the
\* scan, which it may run forwards or backwards (reverse_unordered_selects).
OrderByAddedDate(scan) ==
    [k \in 1..Len(scan) |-> scan[CHOOSE i \in 1..Len(scan) : SortRank(scan, i) = k]]

SelectOutcomes == {OrderByAddedDate(rows), OrderByAddedDate(Reverse(rows))}

\* GET /api/watchlist
get_watchlist ==
    /\ UNCHANGED <<interval, aggVars, fmtVars, concVars>>
    /\ \E sel \in SelectOutcomes :
          resp' = [op |-> "get_watchlist", status |-> 200,
                   watchlist |-> [i \in 1..Len(sel) |->
                                    [symbol |-> sel[i].symbol,
                                     added_date |-> sel[i].added_date]],
                   count |-> Len(sel)]
    /\ UNCHANGED <<rows, seq, clock, nSeeded, nAdded, nRemoved>>

----------------------------------------------------------------------------
(* POST /api/watchlist/<symbol> *)

\* What ticker.info gives for one request: an exception, or a dict that
\* carries 'symbol' and 'longName' or lacks them.
InfoOutcomes == {[raises |-> TRUE,  symbol |-> FALSE, longName |-> FALSE]}
                \cup {[raises |-> FALSE, symbol |-> a, longName |-> b] :
                        a \in BOOLEAN, b \in BOOLEAN}

add_without_unique(raw, info) ==
    /\ UNCHANGED <<interval, aggVars, fmtVars, concVars>>
    /\ LET symbol == upper(raw) IN
           IF info.raises
           THEN /\ resp' = [op |-> "add", raw |-> raw, symbol |-> symbol, status |-> 500]
                /\ UNCHANGED <<rows, seq, clock, nSeeded, nAdded, nRemoved>>
           ELSE IF ~info.symbol /\ ~info.longName
           THEN /\ resp' = [op |-> "add", raw |-> raw, symbol |-> symbol, status |-> 400]
                /\ UNCHANGED <<rows, seq, clock, nSeeded, nAdded, nRemoved>>
           ELSE /\ seq < MaxId
                /\ nAdded < MaxAdds
                /\ rows' = Append(rows, [id |-> seq + 1, symbol |-> symbol,
                                         added_date |-> clock])
                /\ seq' = seq + 1
                /\ nAdded' = nAdded + 1
                /\ resp' = [op |-> "add", raw |-> raw, symbol |-> symbol, status |-> 201,
                            company_name |-> IF info.longName THEN "longName" ELSE "N/A"]
                /\ UNCHANGED <<clock, nSeeded, nRemoved>>

add_without_validation(raw, info) ==
    /\ UNCHANGED <<interval, aggVars, fmtVars, concVars>>
    /\ LET symbol == upper(raw) IN
           IF info.raises
           THEN /\ resp' = [op |-> "add", raw |-> raw, symbol |-> symbol, status |-> 500]
                /\ UNCHANGED <<rows, seq, clock, nSeeded, nAdded, nRemoved>>
           ELSE IF symbol \in StoredSymbols
           THEN /\ resp' = [op |-> "add", raw |-> raw, symbol |-> symbol, status |-> 409]
                /\ UNCHANGED <<rows, seq, clock, nSeeded, nAdded, nRemoved>>
           ELSE /\ seq < MaxId
                /\ nAdded < MaxAdds
                /\ rows' = Append(rows, [id |-> seq + 1, symbol |-> symbol,
                                         added_date |-> clock])
                /\ seq' = seq + 1
                /\ nAdded' = nAdded + 1
                /\ resp' = [op |-> "add", raw |-> raw, symbol |-> symbol,
                            status |-> IF info.symbol \/ info.longName THEN 201 ELSE 400,
                            company_name |-> IF info.longName THEN "longName" ELSE "N/A"]
                /\ UNCHANGED <<clock, nSeeded, nRemoved>>

add_to_watchlist(raw, info) ==
    /\ UNCHANGED <<interval, aggVars, fmtVars, concVars>>
    /\ LET symbol == upper(raw) IN
           IF info.raises
           THEN /\ resp' = [op |-> "add", raw |-> raw, symbol |-> symbol, status |-> 500]
                /\ UNCHANGED <<rows, seq, clock, nSeeded, nAdded, nRemoved>>
           ELSE IF ~info.symbol /\ ~info.longName
           THEN /\ resp' = [op |-> "add", raw |-> raw, symbol |-> symbol, status |-> 400]
                /\ UNCHANGED <<rows, seq, clock, nSeeded, nAdded, nRemoved>>
           ELSE IF symbol \in StoredSymbols
           THEN \* UNIQUE(symbol): sqlite3.IntegrityError, rollback
                /\ resp' = [op |-> "add", raw |-> raw, symbol |-> symbol, status |-> 409]
                /\ UNCHANGED <<rows, seq, clock, nSeeded, nAdded, nRemoved>>
           ELSE /\ seq < MaxId
                /\ nAdded < MaxAdds
                /\ rows' = Append(rows, [id |-> seq + 1, symbol |-> symbol,
                                         added_date |-> clock])
                /\ seq' = seq + 1
                /\ nAdded' = nAdded + 1
                /\ resp' = [op |-> "add", raw |-> raw, symbol |-> symbol, status |-> 201,
                            company_name |-> IF info.longName THEN "longName" ELSE "N/A"]
                /\ UNCHANGED <<clock, nSeeded, nRemoved>>

----------------------------------------------------------------------------
(* DELETE /api/watchlist/<symbol> *)

delete_all(symbol) == <<>>

\* The table after DELETE FROM watchlist WHERE symbol = ?
delete_where(symbol) == SelectSeq(rows, LAMBDA r : r.symbol # symbol)

\* cursor.rowcount of that DELETE
rowcount(symbol) == Len(rows) - Len(delete_where(symbol))

remove_always_ok(raw) ==
    LET symbol == upper(raw) IN
    /\ rows' = delete_where(symbol)
    /\ nRemoved' = nRemoved + 1
    /\ resp' = [op |-> "remove", raw |-> raw, symbol |-> symbol, status |-> 200]
    /\ UNCHANGED <<seq, clock, nSeeded, nAdded>>
    /\ UNCHANGED <<interval, aggVars, fmtVars, concVars>>

remove_from_watchlist(raw) ==
    /\ UNCHANGED <<interval, aggVars, fmtVars, concVars>>
    /\ LET symbol == upper(raw) IN
           IF rowcount(symbol) = 0
           THEN /\ resp' = [op |-> "remove", raw |-> raw, symbol |-> symbol, status |-> 404]
                /\ UNCHANGED <<rows, seq, clock, nSeeded, nAdded, nRemoved>>
           ELSE /\ rows' = delete_where(symbol)
                /\ nRemoved' = nRemoved + 1
                /\ resp' = [op |-> "remove", raw |-> raw, symbol |-> symbol, status |-> 200]
                /\ UNCHANGED <<seq, clock, nSeeded, nAdded>>

----------------------------------------------------------------------------
(* The store and its three endpoints *)

\* No GET /api/watchlist/data in progress.
NoRequest ==
    /\ pc = "idle"
    /\ interval = "5m"
    /\ symbols = <<>>
    /\ idx = 0
    /\ results = <<>>
    /\ outcomes = <<>>

\* No bar being labelled.
NoBar ==
    /\ index = [year |-> 2024, month |-> 3, day |-> 14, hour |-> 0, minute |-> 0]
    /\ label = ""

\* One request served at a time: no connection open beside the handler's.
NoConns ==
    /\ conns = <<>>
    /\ lock = 0
    /\ commits = <<>>

\* The database after the first init_db of a fresh file.
Init ==
    /\ rows = SeedRows(0, 0)
    /\ clock = 0
    /\ seq = Len(default_stocks)
    /\ nSeeded = Len(default_stocks)
    /\ nAdded = 0
    /\ nRemoved = 0
    /\ resp = [op |-> "init_db"]
    /\ NoRequest
    /\ NoBar
    /\ NoConns

Add == \E raw \in ReqSymbols, info \in InfoOutcomes : add_to_watchlist(raw, info)

DefaultSet == {default_stocks[i] : i \in 1..Len(default_stocks)}

Remove == \E raw \in ReqSymbols \cup DefaultSet : remove_from_watchlist(raw)

Next == Tick \/ init_db \/ get_watchlist \/ Add \/ Remove

Spec == Init /\ [][Next]_vars

----------------------------------------------------------------------------
(* Labelling a bar: the abbreviated_date branches of get_watchlist_with_data *)

\* 'valid_intervals' of /api/info
valid_intervals == <<"1m", "2m", "5m", "15m", "30m", "60m", "90m", "1h",
                     "1d", "5d", "1wk", "1mo", "3mo">>

\* The interval tokens a request is made with here: the valid ones, the one
\* other token the code names, and one token it does not know.
IntervalTokens == {valid_intervals[i] : i \in 1..Len(valid_intervals)}
                  \cup {"6mo", "1y"}

\* {n:02d} for 0 <= n <= 99
Pad2(n) == IF n < 10 THEN "0" \o ToString(n) ELSE ToString(n)

time_str_mod12(hour, minute) ==
    ToString(hour % 12) \o ":" \o Pad2(minute)
        \o (IF hour < 12 THEN " AM" ELSE " PM")

\* interval in ['1m', '2m', '5m', '15m', '30m']
time_str(hour, minute) ==
    IF hour = 0 THEN "12:" \o Pad2(minute) \o " AM"
    ELSE IF hour < 12 THEN ToString(hour) \o ":" \o Pad2(minute) \o " AM"
    ELSE IF hour = 12 THEN "12:" \o Pad2(minute) \o " PM"
    ELSE ToString(hour - 12) \o ":" \o Pad2(minute) \o " PM"

\* interval in ['1h', '90m']
hourly_str(hour) ==
    IF hour = 0 THEN "12:00 AM"
    ELSE IF hour < 12 THEN ToString(hour) \o ":00 AM"
    ELSE IF hour = 12 THEN "12:00 PM"
    ELSE ToString(hour - 12) \o ":00 PM"

MonthAbbr == <<"Jan", "Feb", "Mar", "Apr", "May", "Jun",
               "Jul", "Aug", "Sep", "Oct", "Nov", "Dec">>
DayAbbr == <<"Sun", "Mon", "Tue", "Wed", "Thu", "Fri", "Sat">>
MonthOffset == <<0, 3, 2, 5, 0, 3, 5, 1, 4, 6, 2, 4>>

\* Day of the week of a Gregorian date, 0 = Sunday.
weekday(t) ==
    LET y == IF t.month < 3 THEN t.year - 1 ELSE t.year
    IN  (y + (y \div 4) - (y \div 100) + (y \div 400)
           + MonthOffset[t.month] + t.day) % 7

\* strftime with the five formats the handler uses (years 1000..9999)
strftime(t, fmt) ==
    CASE fmt = "%m/%d" -> Pad2(t.month) \o "/" \o Pad2(t.day)
      [] fmt = "%a"    -> DayAbbr[weekday(t) + 1]
      [] fmt = "%b %y" -> MonthAbbr[t.month] \o " " \o Pad2(t.year % 100)
      [] fmt = "%Y"    -> ToString(t.year)

abbreviated_date(ivl, t) ==
    IF ivl \in {"1m", "2m", "5m", "15m", "30m"} THEN time_str(t.hour, t.minute)
    ELSE IF ivl \in {"1h", "90m"} THEN hourly_str(t.hour)
    ELSE IF ivl = "1d" THEN strftime(t, "%m/%d")
    ELSE IF ivl = "1wk" THEN strftime(t, "%a")
    ELSE IF ivl = "1mo" THEN strftime(t, "%m/%d")
    ELSE IF ivl \in {"3mo", "6mo"} THEN strftime(t, "%b %y")
    ELSE strftime(t, "%Y")

\* The days the bars at hand fall on.
BarDays == { [year |-> 2024, month |-> 3, day |-> 14],
             [year |-> 1999, month |-> 12, day |-> 31],
             [year |-> 2024, month |-> 1, day |-> 1] }

BarTimes == { [year |-> d.year, month |-> d.month, day |-> d.day,
               hour |-> h, minute |-> m] :
              d \in BarDays, h \in 0..23, m \in 0..59 }

\* One pass of the body of "for index, row in hist.iterrows()" up to the
\* label, for the request's interval and the bar stamped index.
LabelBar ==
    /\ label = ""
    /\ label' = abbreviated_date(interval, index)
    /\ UNCHANGED <<storeVars, resp, interval, aggVars, index, concVars>>

InitFmt ==
    /\ rows = SeedRows(0, 0)
    /\ clock = 0
    /\ seq = Len(default_stocks)
    /\ nSeeded = Len(default_stocks)
    /\ nAdded = 0
    /\ nRemoved = 0
    /\ resp = [op |-> "init_db"]
    /\ pc = "idle"
    /\ symbols = <<>>
    /\ idx = 0
    /\ results = <<>>
    /\ outcomes = <<>>
    /\ interval \in IntervalTokens
    /\ index \in BarTimes
    /\ label = ""
    /\ NoConns

NextFmt == LabelBar

SpecFmt == InitFmt /\ [][NextFmt]_vars

----------------------------------------------------------------------------
(* GET /api/watchlist/data *)

\* Close prices, in mills: 0.000, 0.004 and 1.050.  None ends in 5 mills,
\* where round() follows the binary value of the float.
Closes == {0, 4, 1050}

\* round(x, 2) of a non-negative price in mills: the nearest whole cent, an
\* exact half going to the even cent.
round2(c) ==
    LET q == c \div 10
        r == c % 10
    IN  IF r < 5 THEN 10 * q
        ELSE IF r > 5 THEN 10 * (q + 1)
        ELSE IF q % 2 = 0 THEN 10 * q ELSE 10 * (q + 1)

\* Bars come in ascending time: bar i of a series is stamped BarAt(i).
BarAt(i) == [year |-> 2024, month |-> 3, day |-> 14, hour |-> 9 + i, minute |-> 30]

Histories == UNION { [1..n -> Closes] : n \in 0..MaxBars }

\* What ticker.history(...) followed by ticker.info gives for one symbol: an
\* exception with its message, or the bars and whether info has 'longName'.
ProviderOutcomes ==
    {[kind |-> "raises", msg |-> m] : m \in {"", "Too Many Requests"}}
    \cup {[kind |-> "history",
           bars |-> [i \in 1..Len(h) |-> [index |-> BarAt(i), Close |-> h[i]]],
           longName |-> ln] : h \in Histories, ln \in BOOLEAN}

current_price_first(bars) == round2(bars[1].Close)

\* hist['Close'].iloc[-1]
current_price_of(bars) == round2(bars[Len(bars)].Close)

\* hist['Close'].iloc[-2] if len(hist) > 1 else current_price
previous_price_of(bars) ==
    IF Len(bars) > 1 THEN round2(bars[Len(bars) - 1].Close)
    ELSE current_price_of(bars)

\* The body of the per-symbol try: the value stored in results[symbol].
fetch_result(ivl, o) ==
    IF o.kind = "raises" THEN [error |-> o.msg]
    ELSE IF Len(o.bars) = 0 THEN [error |-> "No data found"]
    ELSE [company_name |-> IF o.longName THEN "longName" ELSE "N/A",
          data |-> [i \in 1..Len(o.bars) |->
                      [date |-> abbreviated_date(ivl, o.bars[i].index),
                       price |-> round2(o.bars[i].Close)]],
          current_price |-> current_price_of(o.bars),
          previous_price |-> previous_price_of(o.bars)]

\* stock_data and not stock_data.get('error')
passes_error_test(stock_data) ==
    ~("error" \in DOMAIN stock_data /\ stock_data.error # "")

\* (change / previous_price) * 100 if previous_price != 0 else 0, as a fraction
change_percent(change, previous_price) ==
    IF previous_price # 0 THEN [num |-> change * 100, den |-> previous_price]
    ELSE [num |-> 0, den |-> 1]

watchlist_entry(symbol, stock_data) ==
    LET change == stock_data.current_price - stock_data.previous_price IN
    [symbol |-> symbol,
     name |-> stock_data.company_name,
     price |-> stock_data.current_price,
     change |-> change,
     changePercent |-> change_percent(change, stock_data.previous_price)]

\* The second loop: one entry per symbol that passes the error test.
watchlist_data(syms, res) ==
    LET kept == SelectSeq(syms, LAMBDA sy : passes_error_test(res[sy]))
    IN  [i \in 1..Len(kept) |-> watchlist_entry(kept[i], res[kept[i]])]

\* The handler up to the loop: read the symbols; an empty table is answered
\* at once.
begin_data ==
    /\ pc # "fetch"
    /\ \E ivl \in {"5m", "1wk"}, sel \in SelectOutcomes :
          /\ interval' = ivl
          /\ symbols' = [i \in 1..Len(sel) |-> sel[i].symbol]
          /\ IF Len(sel) = 0
             THEN /\ resp' = [op |-> "data", status |-> 200, watchlist |-> <<>>]
                  /\ pc' = "done"
                  /\ idx' = 0
             ELSE /\ resp' = [op |-> "data", status |-> 0]
                  /\ pc' = "fetch"
                  /\ idx' = 1
    /\ results' = <<>>
    /\ outcomes' = <<>>
    /\ UNCHANGED <<storeVars, fmtVars, concVars>>

\* One pass of "for symbol in symbols".
fetch_symbol ==
    /\ pc = "fetch"
    /\ idx <= Len(symbols)
    /\ \E o \in ProviderOutcomes :
          /\ results' = [sy \in DOMAIN results \cup {symbols[idx]} |->
                           IF sy = symbols[idx] THEN fetch_result(interval, o)
                           ELSE results[sy]]
          /\ outcomes' = Append(outcomes, o)
    /\ idx' = idx + 1
    /\ UNCHANGED <<storeVars, resp, pc, interval, symbols, fmtVars, concVars>>

\* The second loop and the response.  An entry that passes the error test
\* without holding 'current_price' raises KeyError, which the handler's outer
\* except answers with 500.
build_response ==
    /\ pc = "fetch"
    /\ idx > Len(symbols)
    /\ IF \E i \in 1..Len(symbols) :
             /\ passes_error_test(results[symbols[i]])
             /\ "current_price" \notin DOMAIN results[symbols[i]]
       THEN resp' = [op |-> "data", status |-> 500, error |-> "'current_price'"]
       ELSE resp' = [op |-> "data", status |-> 200,
                     watchlist |-> watchlist_data(symbols, results),
                     count |-> Len(watchlist_data(symbols, results))]
    /\ pc' = "done"
    /\ UNCHANGED <<storeVars, interval, symbols, idx, results, outcomes, fmtVars, concVars>>

\* The table after the last defaults were removed, the first n left.
InitAgg ==
    /\ \E n \in 0..MaxWatch :
          /\ rows = SubSeq(SeedRows(0, 0), 1, n)
          /\ nRemoved = Len(default_stocks) - n
    /\ clock = 0
    /\ seq = Len(default_stocks)
    /\ nSeeded = Len(default_stocks)
    /\ nAdded = 0
    /\ resp = [op |-> "init_db"]
    /\ NoRequest
    /\ NoBar
    /\ NoConns

NextAgg == begin_data \/ fetch_symbol \/ build_response

SpecAgg == InitAgg /\ [][NextAgg]_vars

----------------------------------------------------------------------------
(* The three store handlers served concurrently.  Every handler opens its  *)
(* own connection (get_db_connection); a connection's INSERT or DELETE     *)
(* opens a transaction that holds the database's write lock until commit,  *)
(* rollback or close, and other connections read the committed table.      *)

Reqs == 1..MaxReqs

\* The symbols the concurrent POST and DELETE requests carry.
ConcSymbols == { <<"a","a","p","L">>, <<"B","F",".","B">> }

\* A request slot before its request has arrived.
FreeConn ==
    [kind |-> "none", pc |-> "free", raw |-> <<>>, symbol |-> <<>>,
     company_name |-> "", pending |-> <<>>, rowcount |-> 0,
     from |-> 0, at |-> 0, to |-> 0, during |-> "none",
     status |-> 0, watchlist |-> <<>>]

\* The handler's first step, by route.
FirstStep == [add |-> "validate", remove |-> "delete", list |-> "select"]

\* A request reaches the server; requests are numbered as they arrive.
arrive(r) ==
    /\ conns[r].pc = "free"
    /\ r > 1 => conns[r - 1].pc # "free"
    /\ \E kind \in {"add", "remove", "list"} :
       \E raw \in (IF kind = "list" THEN {<<>>} ELSE ConcSymbols) :
          conns' = [conns EXCEPT ![r] =
                      [@ EXCEPT !.kind = kind, !.pc = FirstStep[kind],
                                !.raw = raw, !.from = Len(commits)]]
    /\ UNCHANGED <<storeVars, resp, interval, aggVars, fmtVars, lock, commits>>

\* The table a SELECT on request r's connection reads: the committed one;
\* the open transaction of another connection is not part of it.
dirty_rows(r) == IF lock # 0 THEN conns[lock].pending ELSE rows

visible_rows(r) == rows

SelectFrom(table) == {OrderByAddedDate(table), OrderByAddedDate(Reverse(table))}

\* GET /api/watchlist: connect, SELECT ... fetchall(), close.
list_select(r) ==
    /\ conns[r].pc = "select"
    /\ \E sel \in SelectFrom(visible_rows(r)) :
          conns' = [conns EXCEPT ![r] =
                      [@ EXCEPT !.pc = "respond",
                                !.watchlist = [i \in 1..Len(sel) |->
                                                 [symbol |-> sel[i].symbol,
                                                  added_date |-> sel[i].added_date]],
                                !.at = Len(commits),
                                !.during = IF lock # 0 /\ conns[lock].pending # rows
                                           THEN conns[lock].kind ELSE "none"]]
    /\ UNCHANGED <<storeVars, resp, interval, aggVars, fmtVars, lock, commits>>

\* GET /api/watchlist: build result and answer.
list_respond(r) ==
    /\ conns[r].pc = "respond"
    /\ conns' = [conns EXCEPT ![r] =
                   [@ EXCEPT !.pc = "done", !.status = 200, !.to = Len(commits)]]
    /\ UNCHANGED <<storeVars, resp, interval, aggVars, fmtVars, lock, commits>>

\* POST: symbol.upper(), ticker.info and the validation test.
add_validate(r) ==
    /\ conns[r].pc = "validate"
    /\ \E info \in InfoOutcomes :
          conns' = [conns EXCEPT ![r] =
             IF info.raises
             THEN [@ EXCEPT !.symbol = upper(conns[r].raw), !.pc = "done", !.status = 500,
                            !.to = Len(commits)]
             ELSE IF ~info.symbol /\ ~info.longName
             THEN [@ EXCEPT !.symbol = upper(conns[r].raw), !.pc = "done", !.status = 400,
                            !.to = Len(commits)]
             ELSE [@ EXCEPT !.symbol = upper(conns[r].raw), !.pc = "insert",
                            !.company_name = IF info.longName THEN "longName"
                                             ELSE "N/A"]]
    /\ UNCHANGED <<storeVars, resp, interval, aggVars, fmtVars, lock, commits>>

\* POST: connect and INSERT.  While another connection holds the write lock
\* the statement waits, and raises OperationalError (answered 500 by the
\* outer except) when the wait times out; a stored symbol raises
\* IntegrityError, answered 409 after rollback.
add_insert(r) ==
    /\ conns[r].pc = "insert"
    /\ IF lock # 0
       THEN /\ conns' = [conns EXCEPT ![r] =
                           [@ EXCEPT !.pc = "done", !.status = 500,
                                     !.to = Len(commits)]]
            /\ UNCHANGED lock
       ELSE IF conns[r].symbol \in StoredSymbols
       THEN /\ conns' = [conns EXCEPT ![r] =
                           [@ EXCEPT !.pc = "done", !.status = 409,
                                     !.to = Len(commits)]]
            /\ UNCHANGED lock
       ELSE /\ conns' = [conns EXCEPT ![r] =
                           [@ EXCEPT !.pc = "commit",
                                     !.pending = Append(rows,
                                         [id |-> seq + 1, symbol |-> conns[r].symbol,
                                          added_date |-> clock])]]
            /\ lock' = r
    /\ UNCHANGED <<storeVars, resp, interval, aggVars, fmtVars, commits>>

\* POST: conn.commit(), close, 201.
add_commit(r) ==
    /\ conns[r].pc = "commit"
    /\ conns[r].kind = "add"
    /\ rows' = conns[r].pending
    /\ seq' = seq + 1
    /\ nAdded' = nAdded + 1
    /\ commits' = Append(commits, conns[r].pending)
    /\ lock' = 0
    /\ conns' = [conns EXCEPT ![r] =
                   [@ EXCEPT !.pc = "done", !.status = 201,
                             !.to = Len(commits) + 1]]
    /\ UNCHANGED <<clock, nSeeded, nRemoved, resp, interval, aggVars, fmtVars>>

\* DELETE: symbol.upper(), connect and DELETE; the statement opens the
\* connection's transaction, whatever the number of rows it deletes.
remove_delete(r) ==
    /\ conns[r].pc = "delete"
    /\ LET symbol == upper(conns[r].raw) IN
       IF lock # 0
       THEN /\ conns' = [conns EXCEPT ![r] =
                           [@ EXCEPT !.symbol = symbol, !.pc = "done",
                                     !.status = 500, !.to = Len(commits)]]
            /\ UNCHANGED lock
       ELSE /\ conns' = [conns EXCEPT ![r] =
                           [@ EXCEPT !.symbol = symbol, !.pc = "rowcount",
                                     !.pending = delete_where(symbol),
                                     !.rowcount = rowcount(symbol)]]
            /\ lock' = r
    /\ UNCHANGED <<storeVars, resp, interval, aggVars, fmtVars, commits>>

\* DELETE: the test of cursor.rowcount; 0 closes the connection without a
\* commit and answers 404.
remove_rowcount(r) ==
    /\ conns[r].pc = "rowcount"
    /\ IF conns[r].rowcount = 0
       THEN /\ conns' = [conns EXCEPT ![r] =
                           [@ EXCEPT !.pc = "done", !.status = 404,
                                     !.to = Len(commits)]]
            /\ lock' = 0
       ELSE /\ conns' = [conns EXCEPT ![r] = [@ EXCEPT !.pc = "commit"]]
            /\ UNCHANGED lock
    /\ UNCHANGED <<storeVars, resp, interval, aggVars, fmtVars, commits>>

\* DELETE: conn.commit(), close, 200.
remove_commit(r) ==
    /\ conns[r].pc = "commit"
    /\ conns[r].kind = "remove"
    /\ rows' = conns[r].pending
    /\ nRemoved' = nRemoved + 1
    /\ commits' = Append(commits, conns[r].pending)
    /\ lock' = 0
    /\ conns' = [conns EXCEPT ![r] =
                   [@ EXCEPT !.pc = "done", !.status = 200,
                             !.to = Len(commits) + 1]]
    /\ UNCHANGED <<seq, clock, nSeeded, nAdded, resp, interval, aggVars, fmtVars>>

\* The database after the first init_db, and no request arrived yet.
InitConc ==
    /\ rows = SeedRows(0, 0)
    /\ clock = 0
    /\ seq = Len(default_stocks)
    /\ nSeeded = Len(default_stocks)
    /\ nAdded = 0
    /\ nRemoved = 0
    /\ resp = [op |-> "init_db"]
    /\ NoRequest
    /\ NoBar
    /\ conns = [r \in Reqs |-> FreeConn]
    /\ lock = 0
    /\ commits = <<SeedRows(0, 0)>>

NextConc ==
    \E r \in Reqs :
        \/ arrive(r)
        \/ list_select(r) \/ list_respond(r)
        \/ add_validate(r) \/ add_insert(r) \/ add_commit(r)
        \/ remove_delete(r) \/ remove_rowcount(r) \/ remove_commit(r)

SpecConc == InitConc /\ [][NextConc]_vars

----------------------------------------------------------------------------
(* Properties of the store *)

IsLower(c) == \E i \in 1..26 : LowerLetters[i] = c

\* Place of each letter in the alphabet, whatever its case.
LetterIndexOf ==
    [c \in {LowerLetters[i] : i \in 1..26} \cup {UpperLetters[i] : i \in 1..26} |->
        CHOOSE i \in 1..26 : c \in {LowerLetters[i], UpperLetters[i]}]

\* 0 for a character that is not a letter.
LetterIndex(c) == IF c \in DOMAIN LetterIndexOf THEN LetterIndexOf[c] ELSE 0

\* a and b spell the same symbol up to the case of their letters.
CaseVariant(a, b) ==
    /\ Len(a) = Len(b)
    /\ \A i \in 1..Len(a) :
          /\ LetterIndex(a[i]) = LetterIndex(b[i])
          /\ LetterIndex(a[i]) = 0 => a[i] = b[i]

EntriesFor(table, s) == {i \in 1..Len(table) : CaseVariant(table[i].symbol, s)}

\* C1 as claimed: once Add has stored a symbol (a symbol outside the defaults
\* is in the table only through Add), every further Add of a case variant of
\* it answers 409 and leaves the table as it was.
C1_Original ==
    [][\A raw \in ReqSymbols, info \in InfoOutcomes :
          (/\ resp'.op = "add" /\ resp'.raw = raw
           /\ add_to_watchlist(raw, info)
           /\ \E i \in EntriesFor(rows, raw) : rows[i].symbol \notin DefaultSet)
          => (resp'.status = 409 /\ rows' = rows)]_vars

\* C1 amended: an Add of a case variant of a stored symbol leaves the table
\* unchanged with exactly one entry for the symbol; it answers 409 when the
\* provider validates the symbol in this request, 400 when the provider's
\* metadata hold neither symbol nor long name, and 500 when the provider
\* call raises.
C1_DuplicateAdd ==
    [][\A raw \in ReqSymbols, info \in InfoOutcomes :
          (/\ resp'.op = "add" /\ resp'.raw = raw
           /\ add_to_watchlist(raw, info)
           /\ EntriesFor(rows, raw) # {})
          => /\ rows' = rows
             /\ Cardinality(EntriesFor(rows', raw)) = 1
             /\ resp'.status = (IF info.raises THEN 500
                                ELSE IF info.symbol \/ info.longName THEN 409
                                ELSE 400)]_vars

C1_Witness ==
    /\ resp.op = "add"
    /\ resp.status = 409
    /\ resp.raw # resp.symbol
    /\ resp.symbol \notin DefaultSet
    /\ Cardinality(EntriesFor(rows, resp.raw)) = 1

\* C2: in every reachable state every stored symbol is free of lowercase
\* letters and no two rows hold the same symbol up to case.
C2_UppercaseUnique ==
    /\ \A i \in 1..Len(rows) : \A k \in 1..Len(rows[i].symbol) :
          ~IsLower(rows[i].symbol[k])
    /\ \A i, j \in 1..Len(rows) :
          CaseVariant(rows[i].symbol, rows[j].symbol) => i = j

C2_Witness ==
    /\ resp.op = "add"
    /\ resp.status = 201
    /\ \E k \in 1..Len(resp.raw) : IsLower(resp.raw[k])
    /\ EntriesFor(rows, resp.raw) # {}

C6_RemoveAbsent ==
    [][\A raw \in ReqSymbols \cup DefaultSet :
          (/\ resp'.op = "remove" /\ resp'.raw = raw
           /\ remove_from_watchlist(raw)
           /\ EntriesFor(rows, raw) = {})
          => (resp'.status = 404 /\ rows' = rows)]_vars

C6_Witness ==
    /\ resp.op = "remove"
    /\ resp.status = 404
    /\ EntriesFor(rows, resp.raw) = {}
    /\ Len(rows) > 0

\* C7: the table, and every list GET /api/watchlist returns, has as many
\* entries as rows were seeded plus POSTs answered 201 minus DELETEs answered
\* 200; a request answered otherwise changes none of the three counts nor
\* the length.
C7_Length ==
    /\ Len(rows) = nSeeded + nAdded - nRemoved
    /\ resp.op = "get_watchlist" =>
          /\ Len(resp.watchlist) = nSeeded + nAdded - nRemoved
          /\ resp.count = Len(resp.watchlist)

C7_Witness ==
    /\ resp.op = "get_watchlist"
    /\ nAdded > 0
    /\ nRemoved > 0
    /\ nSeeded > Len(default_stocks)
    /\ Len(resp.watchlist) > 0

\* C11 as claimed: the defaults are inserted by init_db at most once, at the
\* first start; an init_db that runs later inserts nothing, also when
\* removals have emptied the table in between.
C11_SeedOnce == nSeeded <= Len(default_stocks)

\* C12: an Add whose provider metadata hold neither symbol nor long name
\* answers 400; every Add not answered 201 leaves the table as it was; and
\* an Add that changes the table was validated by the provider in the same
\* request, is answered 201 and appends one row holding the uppercased
\* symbol.
C12_ValidatedAdd ==
    [][\A raw \in ReqSymbols, info \in InfoOutcomes :
          (/\ resp'.op = "add" /\ resp'.raw = raw
           /\ add_to_watchlist(raw, info))
          => /\ (~info.raises /\ ~info.symbol /\ ~info.longName)
                    => resp'.status = 400
             /\ resp'.status \in {201, 400, 409, 500}
             /\ resp'.status # 201 => rows' = rows
             /\ rows' # rows =>
                   /\ ~info.raises
                   /\ info.symbol \/ info.longName
                   /\ resp'.status = 201
                   /\ Len(rows') = Len(rows) + 1
                   /\ SubSeq(rows', 1, Len(rows)) = rows
                   /\ rows'[Len(rows')].symbol = upper(raw)]_vars

C12_Witness ==
    /\ resp.op = "add"
    /\ resp.status = 400
    /\ EntriesFor(rows, resp.raw) = {}
    /\ nAdded > 0

----------------------------------------------------------------------------
(* Properties of the labels *)

Digits == <<"0", "1", "2", "3", "4", "5", "6", "7", "8", "9">>

TwoDigits(n) == Digits[(n \div 10) + 1] \o Digits[(n % 10) + 1]

\* The hour of the 12-hour clock: 12 for hours 0 and 12, else the hour mod 12.
Hour12(h) == IF h \in {0, 12} THEN 12 ELSE h % 12

\* "<H>:<mm> <AM|PM>", H without a leading zero
ClockLabel(h, mm) ==
    (IF Hour12(h) >= 10 THEN "1" \o Digits[Hour12(h) - 9] ELSE Digits[Hour12(h) + 1])
        \o ":" \o mm \o " " \o (IF h < 12 THEN "AM" ELSE "PM")

\* C9: for every hour 0..23 and minute 0..59 the label of the sub-hour branch
\* is "<H>:<mm> <AM|PM>" and the label of the hourly branch "<H>:00 <AM|PM>",
\* with H = 12 for hours 0 and 12 and the hour mod 12 otherwise (so H is in
\* 1..12), AM below hour 12 and PM from it on, mm the two-digit minute.
C9_TwelveHour ==
    label # "" =>
        /\ Hour12(index.hour) \in 1..12
        /\ interval \in {"1m", "2m", "5m", "15m", "30m"} =>
              label = ClockLabel(index.hour, TwoDigits(index.minute))
        /\ interval \in {"1h", "90m"} => label = ClockLabel(index.hour, "00")

C9_Witness ==
    /\ interval = "5m"
    /\ index.hour = 0
    /\ index.minute = 5
    /\ label = "12:05 AM"

\* The label the policy table gives a valid interval token.
PolicyLabel(ivl, t) ==
    IF ivl \in {"1m", "2m", "5m", "15m", "30m"}
        THEN ClockLabel(t.hour, TwoDigits(t.minute))
    ELSE IF ivl \in {"60m", "1h", "90m"} THEN ClockLabel(t.hour, "00")
    ELSE IF ivl \in {"1d", "1mo"} THEN TwoDigits(t.month) \o "/" \o TwoDigits(t.day)
    ELSE IF ivl = "1wk" THEN DayAbbr[weekday(t) + 1]
    ELSE IF ivl = "3mo" THEN MonthAbbr[t.month] \o " " \o TwoDigits(t.year % 100)
    ELSE TwoDigits(t.year \div 100) \o TwoDigits(t.year % 100)

\* C10 as claimed: every token of valid_intervals is labelled by the rule of
\* its class in the policy table: the minute tokens by the minute-precision
\* clock, 60m, 1h and 90m by the hour-precision clock, 1d and 1mo by
\* month/day, 1wk by the weekday, 3mo by month and 2-digit year, and only a
\* token of none of these classes by the 4-digit year.
C10_PolicyTable ==
    (label # "" /\ \E i \in 1..Len(valid_intervals) : valid_intervals[i] = interval)
        => label = PolicyLabel(interval, index)

----------------------------------------------------------------------------
(* Properties of the data view *)

\* What the provider gave for a symbol of the request.
OutcomeOf(sy) == outcomes[CHOOSE i \in 1..Len(symbols) : symbols[i] = sy]

IsSeries(o) == o.kind = "history" /\ Len(o.bars) > 0

\* The last bar of a series and the one before it (the last, if it is alone).
LastClose(bars) == bars[Len(bars)].Close
PrevClose(bars) == IF Len(bars) = 1 THEN bars[1].Close ELSE bars[Len(bars) - 1].Close

\* C4 as claimed: whatever the provider gives each watched symbol, the
\* request is answered 200 with exactly the symbols that got a non-empty
\* series, each once, in the order of the symbols read from the table.
C4_Aggregation ==
    (pc = "done" /\ Len(symbols) > 0) =>
        /\ resp.status = 200
        /\ [i \in 1..Len(resp.watchlist) |-> resp.watchlist[i].symbol]
              = SelectSeq(symbols, LAMBDA sy : IsSeries(OutcomeOf(sy)))

\* C5 as claimed: every 200 response of GET /api/watchlist/data has a count
\* equal to the length of its watchlist, an empty table included.
C5_CountPresent ==
    (resp.op = "data" /\ resp.status = 200) =>
        /\ "count" \in DOMAIN resp
        /\ resp.count = Len(resp.watchlist)

\* C8 as claimed: price is the last close, change the last close minus the
\* previous close, changePercent that change over the previous close times
\* 100, and 0 when the previous close is 0.
C8_Original ==
    (resp.op = "data" /\ resp.status = 200) =>
        \A i \in 1..Len(resp.watchlist) :
            LET e == resp.watchlist[i]
                cur == LastClose(OutcomeOf(e.symbol).bars)
                prev == PrevClose(OutcomeOf(e.symbol).bars)
            IN  /\ e.price = cur
                /\ e.change = cur - prev
                /\ e.changePercent.num * (IF prev = 0 THEN 1 ELSE prev)
                      = (IF prev = 0 THEN 0 ELSE (cur - prev) * 100)
                            * e.changePercent.den

\* The whole cent nearest to a price in mills that is no exact half cent.
NearestCent(c) == CHOOSE m \in (c - 4)..(c + 4) : m % 10 = 0

\* C8 amended: with every close first rounded to 2 decimals, price is the
\* rounded last close, change the rounded last close minus the rounded
\* previous close, changePercent that change over the rounded previous close
\* times 100, and 0 when the rounded previous close is 0; every symbol with
\* a non-empty series has an entry in a 200 response.
C8_RoundedEntry ==
    (resp.op = "data" /\ resp.status = 200) =>
        /\ \A i \in 1..Len(resp.watchlist) :
              LET e == resp.watchlist[i]
                  cur == NearestCent(LastClose(OutcomeOf(e.symbol).bars))
                  prev == NearestCent(PrevClose(OutcomeOf(e.symbol).bars))
              IN  /\ e.price = cur
                  /\ e.change = cur - prev
                  /\ e.changePercent.num * (IF prev = 0 THEN 1 ELSE prev)
                        = (IF prev = 0 THEN 0 ELSE (cur - prev) * 100)
                              * e.changePercent.den
        /\ \A k \in 1..Len(outcomes) :
              IsSeries(outcomes[k]) =>
                 \E i \in 1..Len(resp.watchlist) : resp.watchlist[i].symbol = symbols[k]

C8_Witness ==
    /\ resp.op = "data"
    /\ resp.status = 200
    /\ Len(resp.watchlist) = 2
    /\ \E i \in 1..Len(resp.watchlist) :
          LET e == resp.watchlist[i] IN
          /\ PrevClose(OutcomeOf(e.symbol).bars) = 4
          /\ e.change # 0
          /\ e.changePercent.num = 0
    /\ \E i \in 1..Len(resp.watchlist) : resp.watchlist[i].changePercent.num # 0

----------------------------------------------------------------------------
(* Properties of the concurrent handlers *)

\* The symbol and added_date of every row of a table, as a list answers them.
Listed(table) ==
    {[symbol |-> table[i].symbol, added_date |-> table[i].added_date] :
        i \in 1..Len(table)}

\* C13: under every interleaving of concurrent Add, Remove and List
\* requests, every answered List holds exactly the rows of the table as it
\* was committed at one instant between the request's arrival and its
\* answer (the instant of its SELECT): no row of an INSERT that is not
\* committed, and every row of a DELETE that is executed but not committed.
C13_CommittedSnapshot ==
    \A r \in DOMAIN conns :
        (conns[r].kind = "list" /\ conns[r].pc = "done") =>
            /\ conns[r].from <= conns[r].at
            /\ conns[r].at <= conns[r].to
            /\ conns[r].to <= Len(commits)
            /\ Len(conns[r].watchlist) = Len(commits[conns[r].at])
            /\ {conns[r].watchlist[i] : i \in 1..Len(conns[r].watchlist)}
                  = Listed(commits[conns[r].at])

\* A List answered after a Remove committed, whose SELECT ran while that
\* Remove's DELETE was executed and not yet committed.
C13_Witness ==
    \E r \in DOMAIN conns :
        /\ conns[r].kind = "list"
        /\ conns[r].pc = "done"
        /\ conns[r].during = "remove"
        /\ conns[r].at < conns[r].to
        /\ Len(conns[r].watchlist) > Len(rows)

============================================================================
